---- MODULE Spec2Model ----
(***************************************************************************)
(* Model of the query-routing core of the legal search engine:             *)
(*   app.py            chat_endpoint (the /chat handler)                   *)
(*   orchestrator.py   classify_query, nl2sql_placeholder,                 *)
(*                     process_query_with_routing                          *)
(*   simple_search.py  user_query_to_structured_outputs,                   *)
(*                     structured_outputs_mapping, basic_search            *)
(*   document_rag.py   run_search, generate_answer, process_question       *)
(*                                                                         *)
(* One request is followed from its arrival at /chat to the HTTP outcome.  *)
(* Every collaborator call (completion, embedding, evidence store) is a    *)
(* step whose outcome is chosen nondeterministically from what the         *)
(* provider can produce: an exception, an absent value, or a value.        *)
(*                                                                         *)
(* Encoding of Python values:                                              *)
(*   str            a TLA+ string, or a tuple of characters for the        *)
(*                  question (so that strip() can be computed)             *)
(*   None           None (string slots) / NoneObj (object slots)           *)
(*   dict, model    a record; the keys of a dict are the record's DOMAIN   *)
(*   list           a sequence                                             *)
(*   float          confidence in tenths (5 is 0.5)                        *)
(*                                                                         *)
(* orchestrator.py line 20 imports the name advanced_search from           *)
(* document_rag; the only function of document_rag with that role is       *)
(* process_question (question -> {question, documents, answer}), and the   *)
(* model binds advanced_search to it.                                      *)
(***************************************************************************)
EXTENDS Integers, Sequences, FiniteSets, TLC

(***************************************************************************)
(* Bounds                                                                  *)
(***************************************************************************)
MaxQuestionLen == 2
MaxResults == 2
MaxTextLen == 2
MaxRemembered == 2

(***************************************************************************)
(* Python None                                                             *)
(***************************************************************************)
None == "<None>"
NoneObj == [py_none |-> TRUE]

(***************************************************************************)
(* Questions: strings over a blank and a letter                            *)
(***************************************************************************)
Chars == {" ", "a"}
Questions == UNION {[1..n -> Chars] : n \in 0..MaxQuestionLen}

IsSpace(c) == c \in {" ", "\t", "\n", "\r"}

RECURSIVE lstrip(_)
lstrip(s) ==
    IF s = <<>> THEN <<>>
    ELSE IF IsSpace(Head(s)) THEN lstrip(Tail(s)) ELSE s

RECURSIVE rstrip(_)
rstrip(s) ==
    IF s = <<>> THEN <<>>
    ELSE IF IsSpace(s[Len(s)]) THEN rstrip(SubSeq(s, 1, Len(s) - 1)) ELSE s

\* str.strip()
strip(s) == rstrip(lstrip(s))

(***************************************************************************)
(* Exceptions raised by collaborators carry a text (str(e))                *)
(***************************************************************************)
ErrorTexts == {"timeout", "unauthorized"}

\* str(HTTPException): "<status_code>: <detail>"
EmptyQuestionText == "400: Question cannot be empty"

(***************************************************************************)
(* orchestrator.py: QueryType, QueryClassification                         *)
(***************************************************************************)
QueryType == {"basic_search", "advanced_search", "nl2sql", "clarification_needed"}

ConfidenceValues == {5, 9}
ClarificationValues == {None, "Which sanctions program do you mean?"}

QueryClassification ==
    [query_type : QueryType,
     confidence : ConfidenceValues,
     reasoning : {"model rationale"},
     clarification_question : ClarificationValues]

\* What the completion provider can send back for the classification call:
\* an exception, a message without a parsed object, or a JSON object whose
\* query_type may lie outside the enumeration.
RawTags == QueryType \cup {"summarize"}

ClassifierOutcomes ==
    [kind : {"raise"}, text : ErrorTexts]
    \cup {[kind |-> "no_parsed"]}
    \cup [kind : {"json"}, query_type : RawTags, confidence : ConfidenceValues,
          reasoning : {"model rationale"},
          clarification_question : ClarificationValues]

FallbackClassification ==
    [query_type |-> "advanced_search",
     confidence |-> 5,
     reasoning |-> "Error occurred during classification, defaulting to advanced search",
     clarification_question |-> None]

\* Mutant: the except clause builds its fallback with another tag.
classify_query_basic_fallback(outcome) ==
    IF outcome.kind = "json" /\ outcome.query_type \in QueryType
    THEN [query_type |-> outcome.query_type,
          confidence |-> outcome.confidence,
          reasoning |-> outcome.reasoning,
          clarification_question |-> outcome.clarification_question]
    ELSE [FallbackClassification EXCEPT !.query_type = "basic_search"]

\* classify_query: one schema-constrained completion call; the parse step
\* validates query_type against the enumeration, and every exception of the
\* try block (provider error, validation error, attribute access on a
\* missing parsed object) ends in the fallback classification.
classify_query(outcome) ==
    IF outcome.kind = "json" /\ outcome.query_type \in QueryType
    THEN [query_type |-> outcome.query_type,
          confidence |-> outcome.confidence,
          reasoning |-> outcome.reasoning,
          clarification_question |-> outcome.clarification_question]
    ELSE FallbackClassification

(***************************************************************************)
(* simple_search.py: SearchParameters and the filter extractor             *)
(***************************************************************************)
list_fields_to_map ==
    {"LegalIssue", "Program", "DocumentType", "RegulatoryProvision",
     "EnforcementCharacterization", "OFACPenalty", "AggregatePenalty",
     "Industry", "RespondentNationality", "VoluntaryDisclosure", "EgregiousCase"}

\* SearchParameters() with every field at its declared default.  An
\* Optional[int] / Optional[bool] field is a set: {} is None, {v} is v.
DefaultSearchParameters ==
    [DateIssuedBegin |-> {}, DateIssuedEnd |-> {},
     LegalIssue |-> <<>>, Program |-> <<>>, DocumentType |-> <<>>,
     RegulatoryProvision |-> <<>>, Published |-> {},
     EnforcementCharacterization |-> <<>>,
     NumberOfViolationsLow |-> {}, NumberOfViolationsHigh |-> {},
     OFACPenalty |-> <<>>, AggregatePenalty |-> <<>>, Industry |-> <<>>,
     RespondentNationality |-> <<>>, VoluntaryDisclosure |-> <<>>,
     EgregiousCase |-> <<>>, KeyWords |-> "", ExcludeCommentaries |-> FALSE]

\* Filter objects the extraction call is made to return in the model.
SearchParametersValues ==
    {DefaultSearchParameters,
     [DefaultSearchParameters EXCEPT
        !.DateIssuedBegin = {2020}, !.DateIssuedEnd = {2023},
        !.Program = <<"Iran">>, !.DocumentType = <<"Enforcement Releases">>],
     [DefaultSearchParameters EXCEPT
        !.Industry = <<"Financial Services", "Shipping">>,
        !.VoluntaryDisclosure = <<"Yes">>, !.KeyWords = "voluntary disclosure"]}

ExtractorOutcomes ==
    [kind : {"raise"}, text : ErrorTexts]
    \cup {[kind |-> "no_parsed"]}
    \cup [kind : {"parsed"}, value : SearchParametersValues]

\* user_query_to_structured_outputs: the parsed object, or None when the
\* completion call raised (or when the message carries no parsed object).
user_query_to_structured_outputs(outcome) ==
    IF outcome.kind = "parsed" THEN outcome.value ELSE NoneObj

\* structured_outputs_mapping: every value of every non-empty list facet is
\* replaced by the placeholder ID 1; all other keys are copied.
structured_outputs_mapping(search_params) ==
    [field_name \in DOMAIN search_params |->
        IF field_name \in list_fields_to_map /\ search_params[field_name] # <<>>
        THEN [i \in 1..Len(search_params[field_name]) |-> 1]
        ELSE search_params[field_name]]

\* create_final_json_payload returns its argument.
create_final_json_payload(mapped_params) == mapped_params

\* basic_search: extraction, mapping, payload; None as soon as one of them
\* yields a falsy value (a SearchParameters object and an 18-key dict are
\* truthy, so only a failed extraction does).
basic_search(outcome) ==
    LET structured_outputs == user_query_to_structured_outputs(outcome)
    IN  IF structured_outputs = NoneObj THEN NoneObj
        ELSE create_final_json_payload(structured_outputs_mapping(structured_outputs))

\* json.dumps(result, indent=2)
json_dumps(value) == IF value = NoneObj THEN "null" ELSE ToString(value)

(***************************************************************************)
(* document_rag.py: hybrid retrieval and answer synthesis                  *)
(***************************************************************************)
NUM_SEARCH_RESULTS == 15

\* A row of the evidence store with the selected fields.  String fields of
\* the index are nullable: a field without a value comes back as None.
StoreRow(id, title, keyfacts, text, commentary, score) ==
    [ID |-> id, BrowserFile |-> "file.html", Title |-> title,
     KeyFacts |-> keyfacts, DocumentText |-> text, Commentary |-> commentary,
     DateIssued |-> "2021-03-01T00:00:00Z", Published |-> TRUE,
     DocumentTypes |-> "Enforcement Releases", NumberOfViolations |-> 3,
     SettlementAmount |-> 1000, SanctionPrograms |-> "Iran",
     Industries |-> None, score |-> score]

StoreRows ==
    {StoreRow("doc-1", "Iran Notice", "key facts", "document text", "commentary", 9),
     StoreRow("doc-2", "", "", "", "", 4),
     StoreRow("doc-3", None, "key facts", None, "", 2)}

\* Result lists the store can return for top=NUM_SEARCH_RESULTS (rank order)
ResultLimit == IF MaxResults < NUM_SEARCH_RESULTS THEN MaxResults ELSE NUM_SEARCH_RESULTS
StoreResults == UNION {[1..n -> StoreRows] : n \in 0..ResultLimit}

EmbeddingOutcomes ==
    [kind : {"raise"}, text : ErrorTexts]
    \cup [kind : {"vector"}, value : {<<3, 1, 4>>}]

StoreOutcomes ==
    [kind : {"raise"}, text : ErrorTexts]
    \cup [kind : {"results"}, value : StoreResults]

AnswerTexts == {"According to [Iran Notice], ...",
                "I couldn't find any relevant information."}

SynthesisOutcomes ==
    [kind : {"raise"}, text : ErrorTexts]
    \cup [kind : {"content"}, value : AnswerTexts \cup {None}]

\* result.get(field): falsy for None and for the empty string
Truthy(v) == v # None /\ v # ""

\* "\n\n".join(parts)
RECURSIVE join(_)
join(parts) ==
    IF parts = <<>> THEN ""
    ELSE IF Len(parts) = 1 THEN parts[1]
    ELSE parts[1] \o "\n\n" \o join(Tail(parts))

Section(label, body) ==
    "=== " \o label \o " ===\n" \o body \o "\n=== END " \o label \o " ==="

\* Mutant: the commentary section is appended whether or not the field has
\* a value.
content_parts_always_commentary(row) ==
    (IF Truthy(row.Title) THEN <<Section("TITLE", row.Title)>> ELSE <<>>)
    \o (IF Truthy(row.KeyFacts) THEN <<Section("KEY FACTS", row.KeyFacts)>> ELSE <<>>)
    \o (IF Truthy(row.DocumentText) THEN <<Section("DOCUMENT TEXT", row.DocumentText)>> ELSE <<>>)
    \o <<Section("COMMENTARY", row.Commentary)>>

\* content_parts of one row: the labelled sections of the non-empty fields
content_parts(row) ==
    (IF Truthy(row.Title) THEN <<Section("TITLE", row.Title)>> ELSE <<>>)
    \o (IF Truthy(row.KeyFacts) THEN <<Section("KEY FACTS", row.KeyFacts)>> ELSE <<>>)
    \o (IF Truthy(row.DocumentText) THEN <<Section("DOCUMENT TEXT", row.DocumentText)>> ELSE <<>>)
    \o (IF Truthy(row.Commentary) THEN <<Section("COMMENTARY", row.Commentary)>> ELSE <<>>)

\* the search_result dict built for one row
search_result(row) ==
    [id |-> row.ID,
     content |-> join(content_parts(row)),
     title |-> row.Title,
     browser_file |-> row.BrowserFile,
     date_issued |-> row.DateIssued,
     document_types |-> row.DocumentTypes,
     settlement_amount |-> row.SettlementAmount,
     sanction_programs |-> row.SanctionPrograms,
     industries |-> row.Industries,
     score |-> row.score]

\* Mutant: the rows are pushed on the front of the result list.
run_search_reversed(rows) ==
    [i \in 1..Len(rows) |-> search_result(rows[Len(rows) + 1 - i])]

\* run_search, after the store answered: one search_result per row, in the
\* order of the rows
run_search(rows) == [i \in 1..Len(rows) |-> search_result(rows[i])]

\* process_question's return value
process_question(q, docs, answer) ==
    [question |-> q, documents |-> docs, answer |-> answer]

(***************************************************************************)
(* orchestrator.py: the responses of process_query_with_routing            *)
(***************************************************************************)
\* str(v) inside an f-string
py_str(v) == IF v = None THEN "None" ELSE v

\* Mutant: the clarification response without the classifier's question.
clarification_response_no_question(q, c) ==
    [question |-> q,
     query_type |-> "clarification_needed",
     classification |-> c,
     clarification_question |-> None,
     message |-> "I need more information to help you effectively.",
     documents |-> <<>>,
     answer |-> "I need clarification to provide the best results. "
                \o py_str(c.clarification_question)]

clarification_response(q, c) ==
    [question |-> q,
     query_type |-> "clarification_needed",
     classification |-> c,
     clarification_question |-> c.clarification_question,
     message |-> "I need more information to help you effectively.",
     documents |-> <<>>,
     answer |-> "I need clarification to provide the best results. "
                \o py_str(c.clarification_question)]

\* Mutant: the basic-search response without the search parameters.
basic_search_response_no_params(q, c, params) ==
    [question |-> q,
     query_type |-> "basic_search",
     classification |-> c,
     search_parameters |-> NoneObj,
     documents |-> <<>>,
     answer |-> "I've processed your query into structured search parameters. The system would search for documents matching these criteria: "
                \o json_dumps(params)]

basic_search_response(q, c, params) ==
    [question |-> q,
     query_type |-> "basic_search",
     classification |-> c,
     search_parameters |-> params,
     documents |-> <<>>,
     answer |-> "I've processed your query into structured search parameters. The system would search for documents matching these criteria: "
                \o json_dumps(params)]

\* Mutant: the orchestrator replaces a missing answer by a text of its own.
advanced_search_response_rewritten(c, res) ==
    [question |-> res.question,
     documents |-> res.documents,
     answer |-> IF res.answer = "I couldn't find any relevant information."
                THEN "No answer provided" ELSE res.answer,
     query_type |-> IF c.query_type = "advanced_search"
                    THEN "advanced_search" ELSE "advanced_search_fallback",
     classification |-> c]

advanced_search_response(c, res) ==
    [question |-> res.question,
     documents |-> res.documents,
     answer |-> res.answer,
     query_type |-> IF c.query_type = "advanced_search"
                    THEN "advanced_search" ELSE "advanced_search_fallback",
     classification |-> c]

\* Mutant: the stub reports a status other than not_implemented.
nl2sql_placeholder_done(q) ==
    [question |-> q,
     query_type |-> "nl2sql",
     status |-> "ok",
     message |-> "Statistical and aggregate queries are not yet supported. This feature is coming soon!",
     suggested_alternative |-> "Try rephrasing your question to search for specific documents or cases instead.",
     documents |-> <<>>,
     answer |-> "Done."]

nl2sql_placeholder(q) ==
    [question |-> q,
     query_type |-> "nl2sql",
     status |-> "not_implemented",
     message |-> "Statistical and aggregate queries are not yet supported. This feature is coming soon!",
     suggested_alternative |-> "Try rephrasing your question to search for specific documents or cases instead.",
     documents |-> <<>>,
     answer |-> "I apologize, but I cannot process statistical queries yet. This feature is under development. Please try asking about specific documents, cases, or legal concepts instead."]

nl2sql_response(q, c) ==
    [k \in DOMAIN nl2sql_placeholder(q) \cup {"classification"} |->
        IF k = "classification" THEN c ELSE nl2sql_placeholder(q)[k]]

error_response(q, text) ==
    [question |-> q,
     query_type |-> "error",
     error |-> text,
     message |-> "An error occurred while processing your query.",
     documents |-> <<>>,
     answer |-> "I apologize, but I encountered an error while processing your question. Please try rephrasing your query."]

(***************************************************************************)
(* app.py: Document, ChatResponse and the tail of chat_endpoint            *)
(***************************************************************************)
\* dict.get(key, default)
Get(d, key, default) == IF key \in DOMAIN d THEN d[key] ELSE default

\* Document(...) validates: every str field must hold a string; industries
\* is str | None and settlement_amount is Any
ValidDocument(doc) ==
    /\ doc.id # None
    /\ doc.content # None
    /\ doc.title # None
    /\ doc.browser_file # None
    /\ doc.date_issued # None
    /\ doc.document_types # None
    /\ doc.sanction_programs # None

\* ChatResponse(...) validates: question, query_type and answer are str
ValidChatResponse(res) ==
    /\ Get(res, "query_type", "unknown") # None
    /\ Get(res, "answer", "No answer provided") # None

ChatResponse(res) ==
    [question |-> res.question,
     query_type |-> Get(res, "query_type", "unknown"),
     classification |-> Get(res, "classification", NoneObj),
     documents |-> res.documents,
     answer |-> Get(res, "answer", "No answer provided"),
     search_parameters |-> Get(res, "search_parameters", NoneObj),
     clarification_question |-> Get(res, "clarification_question", None),
     message |-> Get(res, "message", None),
     error |-> Get(res, "error", None)]

InternalError(text) ==
    [status |-> 500, detail |-> "Internal server error: " \o text]

\* chat_endpoint from the orchestrator's result to the HTTP outcome: the
\* documents are converted, the response is built, and any exception of
\* either step is turned into the 500 response by the handler's except
build_http_response(res) ==
    IF \E i \in 1..Len(res.documents) : ~ValidDocument(res.documents[i])
    THEN InternalError("1 validation error for Document")
    ELSE IF ~ValidChatResponse(res)
    THEN InternalError("1 validation error for ChatResponse")
    ELSE [status |-> 200, body |-> ChatResponse(res)]

(***************************************************************************)
(* State                                                                   *)
(***************************************************************************)
VARIABLES
    pc,              \* position of the request in chat_endpoint
    question,        \* request.question
    classification,  \* the QueryClassification of process_query_with_routing
    query_vector,    \* run_search: the embedding of the question
    documents,       \* process_question: the list returned by run_search
    result,          \* the dict returned by process_query_with_routing
    http,            \* what the caller of /chat receives
    calls,           \* collaborator calls issued for the request, in order,
                     \* each with what the collaborator answered
    branches,        \* branch handlers entered for the request, in order
    embedding,       \* a call of generate_embeddings of an indexing script
    classify_ep,     \* the /classify endpoint behind a deterministic provider
    requests,        \* calls of process_query_with_routing running side by side
    mapping,         \* applications of structured_outputs_mapping
    tracing,         \* tracing_setup: the module's flag and the calls of setup_tracing
    indexer,         \* a run of populate_index of an indexing script
    importer         \* a run of main of an SQL import script

chatVars == <<pc, question, classification, query_vector, documents, result,
              http, calls, branches>>

toolVars == <<mapping, tracing, indexer, importer>>

nonChatVars == <<embedding, classify_ep, requests, toolVars>>

serviceVars == <<chatVars, embedding, classify_ep, requests>>

vars == <<pc, question, classification, query_vector, documents, result,
          http, calls, branches, embedding, classify_ep, requests,
          mapping, tracing, indexer, importer>>

(***************************************************************************)
(* knowledge_indexing.py, knowledge_indexing_from_csv.py,                  *)
(* 2-knowledge_indexing.py: generate_embeddings                            *)
(***************************************************************************)
IndexingScripts ==
    {"knowledge_indexing", "knowledge_indexing_from_csv", "2-knowledge_indexing"}

LARGE_DIMENSIONS == 3072
SMALL_DIMENSIONS == 1536

\* vector_search_dimensions of the three vector fields in create_index
IndexVectorDimensions(script) ==
    IF script = "2-knowledge_indexing" THEN SMALL_DIMENSIONS ELSE LARGE_DIMENSIONS

\* [0.0] * n
Zeros(n) == [i \in 1..n |-> 0]

\* the texts handed to generate_embeddings
TextChars == {" ", "\n", "k"}
EmbeddingTexts == UNION {[1..n -> TextChars] : n \in 0..MaxTextLen}

\* What openai_client.embeddings.create can answer: an exception, a response
\* without data, or an embedding of the deployment's dimensionality.
IndexEmbeddingOutcomes(script) ==
    [kind : {"raise"}, text : ErrorTexts]
    \cup {[kind |-> "no_data"]}
    \cup [kind : {"vector"},
          value : {[i \in 1..IndexVectorDimensions(script) |-> 1],
                   [i \in 1..IndexVectorDimensions(script) |-> 2]}]

\* not text or not text.strip()   (2-knowledge_indexing: not text.strip())
IsBlankText(text) == text = <<>> \/ strip(text) = <<>>

\* Mutant: the zero vector of the 1536-dimension script in every script.
generate_embeddings_small(script, text, outcome) ==
    IF IsBlankText(text) THEN Zeros(SMALL_DIMENSIONS)
    ELSE IF outcome.kind = "vector" THEN outcome.value
    ELSE Zeros(SMALL_DIMENSIONS)

\* generate_embeddings: the zero vector for a blank text (no provider call),
\* the provider's embedding, or the zero vector when anything in the try
\* block raised.  The literal of the zero vector is 1536 in
\* 2-knowledge_indexing.py and 3072 in the other two scripts.
generate_embeddings(script, text, outcome) ==
    IF IsBlankText(text)
    THEN Zeros(IF script = "2-knowledge_indexing" THEN SMALL_DIMENSIONS
               ELSE LARGE_DIMENSIONS)
    ELSE IF outcome.kind = "vector" THEN outcome.value
    ELSE Zeros(IF script = "2-knowledge_indexing" THEN SMALL_DIMENSIONS
               ELSE LARGE_DIMENSIONS)

EmbeddingIdle ==
    [pc |-> "idle", script |-> "", text |-> <<>>, outcome |-> NoneObj,
     vector |-> <<>>]

(***************************************************************************)
(* app.py: the /classify endpoint behind a deterministic completion        *)
(* provider (a stub that answers every question the same way each time)    *)
(***************************************************************************)
StubRaise == [kind |-> "raise", text |-> "timeout"]

StubJson(tag, cq) ==
    [kind |-> "json", query_type |-> tag, confidence |-> 9,
     reasoning |-> "model rationale", clarification_question |-> cq]

DeterministicProviders ==
    {[q \in Questions |-> StubRaise],
     [q \in Questions |-> StubJson("nl2sql", None)],
     [q \in Questions |-> StubJson("summarize", None)],
     [q \in Questions |->
        IF Len(q) < 2
        THEN StubJson("clarification_needed", "Which sanctions program do you mean?")
        ELSE StubJson("advanced_search", None)],
     [q \in Questions |->
        IF strip(q) = <<>>
        THEN StubJson("clarification_needed", "Which sanctions program do you mean?")
        ELSE StubJson("basic_search", None)]}

\* classify_query_endpoint: the body returned for a classification
classify_query_endpoint(q, c) ==
    [question |-> q,
     classification |->
        [query_type |-> c.query_type,
         confidence |-> c.confidence,
         reasoning |-> c.reasoning,
         clarification_question |-> c.clarification_question]]

ClassifyIdle(provider) ==
    [pc |-> "idle", question |-> <<>>, provider |-> provider,
     seen |-> {}, response |-> NoneObj]

(***************************************************************************)
(* orchestrator.py: process_query_with_routing as a step function on the   *)
(* locals of one call, for calls running side by side                      *)
(***************************************************************************)
\* two calls
RequestIds == {1, 2}

RequestIdle ==
    [pc |-> "idle", question |-> <<>>, classification |-> NoneObj,
     documents |-> <<>>, result |-> NoneObj, calls |-> <<>>]

(***************************************************************************)
(* simple_search.py: structured_outputs_mapping applied to a value         *)
(***************************************************************************)
MaxFacetLen == 2

FacetValues == {"Iran", "Shipping"}
FacetLists == UNION {[1..n -> FacetValues] : n \in 0..MaxFacetLen}

\* SearchParameters objects handed to the mapping step
MappingInputs ==
    {[DefaultSearchParameters EXCEPT
         !.Program = program, !.Industry = industry, !.KeyWords = keywords,
         !.DateIssuedBegin = begin]
       : program \in FacetLists, industry \in FacetLists,
         keywords \in {"", "voluntary disclosure"}, begin \in {{}, {2020}}}

\* A Python value with its type: a SearchParameters object has model_dump,
\* a dict has not.
PyObject(type, value) == [type |-> type, value |-> value]

\* structured_outputs_mapping(search_params) for any argument: inside the
\* try, search_params.model_dump() raises AttributeError for a dict, and the
\* except clause calls search_params.model_dump() again, so the exception
\* leaves the function.
call_structured_outputs_mapping(arg) ==
    IF arg.type = "SearchParameters"
    THEN [kind |-> "return",
          value |-> PyObject("dict", structured_outputs_mapping(arg.value))]
    ELSE [kind |-> "raise",
          text |-> "AttributeError: 'dict' object has no attribute 'model_dump'"]

MappingIdle ==
    [pc |-> "idle", input |-> NoneObj, first |-> NoneObj, second |-> NoneObj]

(***************************************************************************)
(* tracing_setup.py                                                        *)
(***************************************************************************)
MaxTracingCalls == 7

\* os.getenv("APPLICATIONINSIGHTS_CONNECTION_STRING")
ConnectionStrings == {None, "InstrumentationKey=00000000", "not a connection string"}

\* The module after import: _tracing_initialized = False, setup_tracing not
\* yet called, nothing instrumented or configured.
TracingIdle ==
    [pc |-> "idle", initialized |-> FALSE, call |-> 0, log |-> <<>>]

(***************************************************************************)
(* knowledge_indexing.py, knowledge_indexing_from_csv.py,                  *)
(* 2-knowledge_indexing.py: populate_index                                 *)
(***************************************************************************)
MaxRows == 2

DEFAULT_BATCH_SIZE == 25
SMALL_SCRIPT_BATCH_SIZE == 100

\* populate_index(batch_size=...): the default of the script, and small
\* sizes that make full batches happen
BatchSizes(script) ==
    {1, 2, IF script = "2-knowledge_indexing" THEN SMALL_SCRIPT_BATCH_SIZE
           ELSE DEFAULT_BATCH_SIZE}

TextFields == <<"KeyFacts", "DocumentText", "Commentary">>

VectorField(field) == field \o "Vector"

\* The text columns of a fetched row.  A column is a set: {} is NULL (or a
\* missing key), {t} is the text t.
RowTexts ==
    {[KeyFacts |-> {<<"k">>}, DocumentText |-> {<<"k", " ">>}, Commentary |-> {<<"k">>}],
     [KeyFacts |-> {<<>>}, DocumentText |-> {}, Commentary |-> {<<" ">>}]}

\* Row number id of the table: ID is the integer primary key.
FetchedRow(id, texts) ==
    [ID |-> id, KeyFacts |-> texts.KeyFacts, DocumentText |-> texts.DocumentText,
     Commentary |-> texts.Commentary]

FetchedRows ==
    UNION {{[i \in 1..n |-> FetchedRow(i, choice[i])] : choice \in [1..n -> RowTexts]}
             : n \in 0..MaxRows}

\* What the embedding provider answers to the three calls made for one row
RowEmbeddingOutcomes(script) ==
    LET dims == IndexVectorDimensions(script)
        ones == [kind |-> "vector", value |-> [i \in 1..dims |-> 1]]
        twos == [kind |-> "vector", value |-> [i \in 1..dims |-> 2]]
    IN  {[KeyFacts |-> ones, DocumentText |-> ones, Commentary |-> ones],
         [KeyFacts |-> twos, DocumentText |-> [kind |-> "no_data"],
          Commentary |-> [kind |-> "raise", text |-> "unauthorized"]]}

\* row.get(field) or ""
text_or_empty(column) == IF column = {} THEN <<>> ELSE CHOOSE t \in column : TRUE

\* A vector as it is kept in the state of a run: its number of components
\* and the set of the values of its components (a zero vector has {0}).
StoredVector(vector) ==
    [dimensions |-> Len(vector),
     components |-> {vector[d] : d \in 1..Len(vector)}]

\* Mutant: a row gets a vector only for the texts that are not empty.
index_document_skip_empty(script, row, outcomes) ==
    [key \in {"ID"} \cup {TextFields[k] : k \in 1..3}
             \cup {VectorField(TextFields[k]) :
                     k \in {j \in 1..3 : text_or_empty(row[TextFields[j]]) # <<>>}} |->
        IF key = "ID" THEN ToString(row.ID)
        ELSE IF \E k \in 1..3 : key = TextFields[k] THEN row[key]
        ELSE LET field == CHOOSE f \in {TextFields[k] : k \in 1..3} : VectorField(f) = key
             IN  StoredVector(generate_embeddings(script, text_or_empty(row[field]),
                                                  outcomes[field]))]

\* populate_index, the body of the loop up to batch.append(row): the ID is
\* made a string and each of the three texts gets its vector.
index_document(script, row, outcomes) ==
    [key \in {"ID"} \cup {TextFields[k] : k \in 1..3}
             \cup {VectorField(TextFields[k]) : k \in 1..3} |->
        IF key = "ID" THEN ToString(row.ID)
        ELSE IF \E k \in 1..3 : key = TextFields[k] THEN row[key]
        ELSE LET field == CHOOSE f \in {TextFields[k] : k \in 1..3} : VectorField(f) = key
             IN  StoredVector(generate_embeddings(script, text_or_empty(row[field]),
                                                  outcomes[field]))]

IndexerIdle ==
    [pc |-> "idle", script |-> "", batch_size |-> 0, rows |-> <<>>, i |-> 0,
     batch |-> <<>>, uploads |-> <<>>]

(***************************************************************************)
(* import_sql_data.py, import_sql_data_full.py: main                       *)
(***************************************************************************)
MaxFileRows == 2

ImportScripts == {"import_sql_data", "import_sql_data_full"}

IMPORT_BATCH_SIZE == 1000
FULL_IMPORT_BATCH_SIZE == 2000

\* batch_size of main: the value of the script, and small sizes that make
\* full batches happen
ImportBatchSizes(script) ==
    {1, 2, IF script = "import_sql_data_full" THEN FULL_IMPORT_BATCH_SIZE
           ELSE IMPORT_BATCH_SIZE}

\* Data row number line of the file; valid says whether its values pass the
\* type and length tests of preflight_scan.
FileRow(line, valid) == [line |-> line, valid |-> valid]

\* The data file: whether it exists, its header row, and its data rows
DataFiles ==
    {[exists |-> FALSE, headers |-> "expected", rows |-> <<>>],
     [exists |-> TRUE, headers |-> "empty", rows |-> <<>>]}
    \cup UNION {{[exists |-> TRUE, headers |-> headers,
                  rows |-> [i \in 1..n |-> FileRow(i, valid[i])]]
                   : headers \in {"expected", "reordered"},
                     valid \in [1..n -> BOOLEAN]}
                : n \in 0..MaxFileRows}

\* The table before the import runs
ExistingTable == <<FileRow(0, TRUE)>>

\* The checks main makes before it opens the connection it writes through
ChecksBeforeImport(script) ==
    IF script = "import_sql_data_full"
    THEN <<"validate_data_file", "check_schema_simple", "preflight_scan",
           "validate_sql_connection">>
    ELSE <<"validate_csv_file", "validate_sql_connection">>

ImporterIdle ==
    [pc |-> "idle", script |-> "", batch_size |-> 0, file |-> NoneObj,
     steps |-> <<>>, position |-> 0, batch_rows |-> <<>>, total_rows |-> 0,
     submitted |-> <<>>, table |-> ExistingTable, pending |-> <<>>,
     reported |-> {}]

Init ==
    /\ pc = "idle"
    /\ question = <<>>
    /\ classification = NoneObj
    /\ query_vector = <<>>
    /\ documents = <<>>
    /\ result = NoneObj
    /\ http = NoneObj
    /\ calls = <<>>
    /\ branches = <<>>
    /\ embedding = EmbeddingIdle
    /\ classify_ep = ClassifyIdle([q \in Questions |-> StubRaise])
    /\ requests = [r \in RequestIds |-> RequestIdle]
    /\ mapping = MappingIdle
    /\ tracing = TracingIdle
    /\ indexer = IndexerIdle
    /\ importer = ImporterIdle

Call(name, outcome) == [name |-> name, outcome |-> outcome]

\* the names of the collaborator calls issued so far
CallNames == [i \in 1..Len(calls) |-> calls[i].name]

\* Mutant: the emptiness test without strip().
IsEmptyQuestion_nostrip(q) == q = <<>>

\* app.py line 95: not request.question.strip()
IsEmptyQuestion(q) == strip(q) = <<>>

(***************************************************************************)
(* Actions                                                                 *)
(***************************************************************************)
\* A POST /chat arrives with some question.
ReceiveRequest ==
    /\ pc = "idle"
    /\ UNCHANGED nonChatVars
    /\ \E q \in Questions : question' = q
    /\ pc' = "validate"
    /\ UNCHANGED <<classification, query_vector, documents, result, http,
                   calls, branches>>

\* chat_endpoint, lines 94-98.  The HTTPException(400) is raised inside the
\* try block whose "except Exception" turns every exception into
\* HTTPException(500, "Internal server error: " + str(e)).
ValidateQuestion ==
    /\ pc = "validate"
    /\ UNCHANGED nonChatVars
    /\ IF IsEmptyQuestion(question)
       THEN /\ http' = InternalError(EmptyQuestionText)
            /\ pc' = "responded"
       ELSE /\ pc' = "classify"
            /\ UNCHANGED http
    /\ UNCHANGED <<question, classification, query_vector, documents, result,
                   calls, branches>>

\* process_query_with_routing, step 1: classify_query.
ClassifyQuery ==
    /\ pc = "classify"
    /\ UNCHANGED nonChatVars
    /\ \E outcome \in ClassifierOutcomes :
          /\ classification' = classify_query(outcome)
          /\ calls' = Append(calls, Call("classify", outcome))
    /\ pc' = "route"
    /\ UNCHANGED <<question, query_vector, documents, result, http, branches>>

\* The branch a classification is dispatched to (the if/elif chain).
BranchOf(c) ==
    IF c.query_type = "clarification_needed" THEN "Clarification"
    ELSE IF c.query_type = "basic_search" THEN "StructuredSearch"
    ELSE IF c.query_type = "advanced_search" THEN "SemanticSearch"
    ELSE IF c.query_type = "nl2sql" THEN "Statistical"
    ELSE "SemanticSearch"

\* process_query_with_routing, step 2: the dispatch.  The clarification and
\* the NL2SQL branch return at once; the two search branches go on to their
\* first collaborator call.
RouteQuery ==
    /\ pc = "route"
    /\ UNCHANGED nonChatVars
    /\ branches' = Append(branches, BranchOf(classification))
    /\ IF BranchOf(classification) = "Clarification"
       THEN /\ result' = clarification_response(question, classification)
            /\ pc' = "orchestrated"
       ELSE IF BranchOf(classification) = "Statistical"
       THEN /\ result' = nl2sql_response(question, classification)
            /\ pc' = "orchestrated"
       ELSE IF BranchOf(classification) = "StructuredSearch"
       THEN /\ pc' = "extract"
            /\ UNCHANGED result
       ELSE /\ pc' = "embed"
            /\ UNCHANGED result
    /\ UNCHANGED <<question, classification, query_vector, documents, http,
                   calls>>

\* basic_search: one schema-constrained completion call, then the mapping;
\* its result (None after a failed extraction) is put in the response.
ExtractFilters ==
    /\ pc = "extract"
    /\ UNCHANGED nonChatVars
    /\ \E outcome \in ExtractorOutcomes :
          /\ calls' = Append(calls, Call("extract", outcome))
          /\ result' = basic_search_response(question, classification,
                                             basic_search(outcome))
    /\ pc' = "orchestrated"
    /\ UNCHANGED <<question, classification, query_vector, documents, http,
                   branches>>

\* Mutant: a failed embedding call is tried a second time.
EmbedQuery_retry ==
    /\ pc = "embed"
    /\ UNCHANGED nonChatVars
    /\ \E outcome \in EmbeddingOutcomes :
          /\ calls' = Append(calls, Call("embed", outcome))
          /\ IF outcome.kind = "raise" /\ calls[Len(calls)].name # "embed"
             THEN /\ pc' = "embed"
                  /\ UNCHANGED <<result, query_vector>>
             ELSE IF outcome.kind = "raise"
             THEN /\ result' = error_response(question, outcome.text)
                  /\ pc' = "orchestrated"
                  /\ UNCHANGED query_vector
             ELSE /\ query_vector' = outcome.value
                  /\ pc' = "search"
                  /\ UNCHANGED result
    /\ UNCHANGED <<question, classification, documents, http, branches>>

\* run_search, line 47: embed_query.  An exception leaves run_search and
\* process_question and is caught by the orchestrator's except.
EmbedQuery ==
    /\ pc = "embed"
    /\ UNCHANGED nonChatVars
    /\ \E outcome \in EmbeddingOutcomes :
          /\ calls' = Append(calls, Call("embed", outcome))
          /\ IF outcome.kind = "raise"
             THEN /\ result' = error_response(question, outcome.text)
                  /\ pc' = "orchestrated"
                  /\ UNCHANGED query_vector
             ELSE /\ query_vector' = outcome.value
                  /\ pc' = "search"
                  /\ UNCHANGED result
    /\ UNCHANGED <<question, classification, documents, http, branches>>

\* Mutant: the store query is issued without waiting for the embedding.
SearchStore_early ==
    /\ pc \in {"embed", "search"}
    /\ UNCHANGED nonChatVars
    /\ \E outcome \in StoreOutcomes :
          /\ calls' = Append(calls, Call("search", outcome))
          /\ IF outcome.kind = "raise"
             THEN /\ result' = error_response(question, outcome.text)
                  /\ pc' = "orchestrated"
                  /\ UNCHANGED documents
             ELSE /\ documents' = run_search(outcome.value)
                  /\ pc' = "synthesize"
                  /\ UNCHANGED result
    /\ UNCHANGED <<question, classification, query_vector, http, branches>>

\* run_search, lines 69-112: the store query and the assembly of the rows.
SearchStore ==
    /\ pc = "search"
    /\ UNCHANGED nonChatVars
    /\ \E outcome \in StoreOutcomes :
          /\ calls' = Append(calls, Call("search", outcome))
          /\ IF outcome.kind = "raise"
             THEN /\ result' = error_response(question, outcome.text)
                  /\ pc' = "orchestrated"
                  /\ UNCHANGED documents
             ELSE /\ documents' = run_search(outcome.value)
                  /\ pc' = "synthesize"
                  /\ UNCHANGED result
    /\ UNCHANGED <<question, classification, query_vector, http, branches>>

\* generate_answer, then the return of process_question and lines 237-239
\* of the orchestrator.
SynthesizeAnswer ==
    /\ pc = "synthesize"
    /\ UNCHANGED nonChatVars
    /\ \E outcome \in SynthesisOutcomes :
          /\ calls' = Append(calls, Call("synthesize", outcome))
          /\ IF outcome.kind = "raise"
             THEN result' = error_response(question, outcome.text)
             ELSE result' = advanced_search_response(classification,
                                process_question(question, documents, outcome.value))
    /\ pc' = "orchestrated"
    /\ UNCHANGED <<question, classification, query_vector, documents, http,
                   branches>>

\* chat_endpoint, lines 103-142.
BuildResponse ==
    /\ pc = "orchestrated"
    /\ UNCHANGED nonChatVars
    /\ http' = build_http_response(result)
    /\ pc' = "responded"
    /\ UNCHANGED <<question, classification, query_vector, documents, result,
                   calls, branches>>

\* The response is sent; nothing of the request is kept.
FinishRequest ==
    /\ pc = "responded"
    /\ UNCHANGED nonChatVars
    /\ pc' = "idle"
    /\ question' = <<>>
    /\ classification' = NoneObj
    /\ query_vector' = <<>>
    /\ documents' = <<>>
    /\ result' = NoneObj
    /\ http' = NoneObj
    /\ calls' = <<>>
    /\ branches' = <<>>

Next ==
    \/ ReceiveRequest
    \/ ValidateQuestion
    \/ ClassifyQuery
    \/ RouteQuery
    \/ ExtractFilters
    \/ EmbedQuery
    \/ SearchStore
    \/ SynthesizeAnswer
    \/ BuildResponse
    \/ FinishRequest

Spec == Init /\ [][Next]_vars

\* A handler that was called runs to its return: every step of a request
\* in progress is eventually taken.
Handle ==
    \/ ValidateQuestion
    \/ ClassifyQuery
    \/ RouteQuery
    \/ ExtractFilters
    \/ EmbedQuery
    \/ SearchStore
    \/ SynthesizeAnswer
    \/ BuildResponse

FairSpec == Spec /\ WF_vars(Handle)

(***************************************************************************)
(* Properties                                                              *)
(***************************************************************************)
ResponseQueryTypes == QueryType \cup {"error"}

FailedClassification(outcome) ==
    outcome.kind # "json" \/ outcome.query_type \notin QueryType

NoDuplicates(seq) ==
    \A i, j \in 1..Len(seq) : seq[i] = seq[j] => i = j

\* C1: for every non-empty question and every outcome of the collaborators,
\* the response returned by process_query_with_routing has a non-null answer
\* and a query_type among basic_search, advanced_search, nl2sql,
\* clarification_needed and error.
C1_AnswerAndQueryType ==
    pc = "orchestrated" =>
        /\ result.answer # None
        /\ result.query_type \in ResponseQueryTypes

\* C2: an empty or whitespace-only question is rejected before any
\* collaborator is invoked: no call is ever issued for it, no branch is
\* entered, and the request ends in a non-200 outcome.
C2_EmptyRejectedBeforeCollaborators ==
    strip(question) = <<>> =>
        /\ calls = <<>>
        /\ branches = <<>>
        /\ pc \in {"idle", "validate", "responded"}
        /\ pc = "responded" => http.status # 200

C2_Witness ==
    /\ pc = "responded"
    /\ question = <<" ">>
    /\ calls = <<>>
    /\ http.status # 200

\* C3: an empty or whitespace-only question ends in the client-error outcome
\* 400 "Question cannot be empty".
C3_EmptyIsClientError ==
    (pc = "responded" /\ strip(question) = <<>>) =>
        /\ http.status = 400
        /\ http.detail = "Question cannot be empty"

\* C4: classify_query always hands a classification to its caller; when the
\* completion call raised, carried no parsed object or could not be parsed
\* into the schema, that classification is the fallback: advanced_search,
\* confidence 0.5, the rationale noting the failure, no clarification
\* question.
C4_ClassifierFallback ==
    Len(calls) >= 1 =>
        /\ calls[1].name = "classify"
        /\ classification # NoneObj
        /\ classification.query_type \in QueryType
        /\ FailedClassification(calls[1].outcome) =>
              /\ classification.query_type = "advanced_search"
              /\ classification.confidence = 5
              /\ classification.reasoning =
                    "Error occurred during classification, defaulting to advanced search"
              /\ classification.clarification_question = None

C4_Witness ==
    /\ pc = "route"
    /\ calls[1].outcome.kind = "raise"
    /\ classification.query_type = "advanced_search"

\* C5: when the classification call fails, the request is answered from the
\* SemanticSearch branch with query_type advanced_search, not with an error.
C5_FailOpenRouting ==
    (pc = "orchestrated" /\ calls[1].outcome.kind = "raise") =>
        /\ branches = <<"SemanticSearch">>
        /\ result.query_type = "advanced_search"

\* C6: the classification consumed by the orchestrator has a clarification
\* question if and only if its tag is clarification_needed.
C6_ClarificationIffTag ==
    classification # NoneObj =>
        (classification.clarification_question # None
            <=> classification.query_type = "clarification_needed")

\* C7: a request that reached the orchestrator is classified first, enters
\* exactly one branch exactly once, issues every collaborator call at most
\* once, and always reaches the point where the orchestrator has responded.
C7_OneBranchNoRetry ==
    /\ Len(branches) <= 1
    /\ NoDuplicates(CallNames)
    /\ Len(calls) >= 1 => CallNames[1] = "classify"
    /\ pc \in {"extract", "embed", "search", "synthesize", "orchestrated"}
          => Len(branches) = 1
    /\ pc = "orchestrated" =>
          /\ result # NoneObj
          /\ branches[1] \in {"StructuredSearch", "SemanticSearch",
                              "Statistical", "Clarification"}

C7_RequestLifecycle ==
    /\ []C7_OneBranchNoRetry
    /\ (pc = "classify") ~> (pc = "orchestrated")
    /\ (pc = "orchestrated") ~> (pc = "responded")

C7_Witness ==
    /\ pc = "orchestrated"
    /\ CallNames = <<"classify", "embed", "search">>
    /\ calls[3].outcome.kind = "raise"
    /\ branches = <<"SemanticSearch">>

\* C8: with the tag clarification_needed the response carries the
\* classifier's clarification question and no documents, and no call other
\* than the classification was issued.
C8_ClarificationBranch ==
    (pc = "orchestrated" /\ classification.query_type = "clarification_needed") =>
        /\ result.query_type = "clarification_needed"
        /\ result.clarification_question = calls[1].outcome.clarification_question
        /\ result.documents = <<>>
        /\ CallNames = <<"classify">>
        /\ branches = <<"Clarification">>

C8_Witness ==
    /\ pc = "orchestrated"
    /\ classification.query_type = "clarification_needed"
    /\ result.clarification_question = "Which sanctions program do you mean?"

\* C9: with the tag basic_search the response carries the filter object
\* produced by the extractor as search_parameters and no documents, and
\* neither the embedding provider nor the evidence store was called.
C9_StructuredBranch ==
    (pc = "orchestrated" /\ classification.query_type = "basic_search") =>
        /\ result.query_type = "basic_search"
        /\ result.documents = <<>>
        /\ CallNames = <<"classify", "extract">>
        /\ branches = <<"StructuredSearch">>
        /\ calls[2].outcome.kind = "parsed" =>
              /\ DOMAIN result.search_parameters = DOMAIN calls[2].outcome.value
              /\ \A k \in DOMAIN calls[2].outcome.value :
                    IF k \in list_fields_to_map
                    THEN Len(result.search_parameters[k]) = Len(calls[2].outcome.value[k])
                    ELSE result.search_parameters[k] = calls[2].outcome.value[k]

C9_Witness ==
    /\ pc = "orchestrated"
    /\ classification.query_type = "basic_search"
    /\ calls[2].outcome.kind = "parsed"
    /\ result.search_parameters.DateIssuedBegin = {2020}

\* C10: with the tag advanced_search the orchestrator runs retrieval and
\* then synthesis, and the response carries the evidence list of the
\* retrieval and the synthesized answer with query_type advanced_search.
C10_SemanticBranch ==
    (pc = "orchestrated" /\ classification.query_type = "advanced_search") =>
        /\ CallNames = <<"classify", "embed", "search", "synthesize">>
        /\ result.query_type = "advanced_search"
        /\ result.documents = documents
        /\ calls[4].outcome.kind = "content"
        /\ result.answer = calls[4].outcome.value

\* C11: with the tag nl2sql the orchestrator returns the fixed stub: status
\* not_implemented, the suggested rephrase, the placeholder answer and no
\* documents; apart from the echoed question and the attached
\* classification the response is the same for every request, and only the
\* classification call was issued.
C11_StatisticalStub ==
    (pc = "orchestrated" /\ classification.query_type = "nl2sql") =>
        /\ result =
              [question |-> question,
               classification |-> classification,
               query_type |-> "nl2sql",
               status |-> "not_implemented",
               message |-> "Statistical and aggregate queries are not yet supported. This feature is coming soon!",
               suggested_alternative |-> "Try rephrasing your question to search for specific documents or cases instead.",
               documents |-> <<>>,
               answer |-> "I apologize, but I cannot process statistical queries yet. This feature is under development. Please try asking about specific documents, cases, or legal concepts instead."]
        /\ CallNames = <<"classify">>
        /\ branches = <<"Statistical">>

C11_Witness ==
    /\ pc = "orchestrated"
    /\ classification.query_type = "nl2sql"
    /\ question = <<"a", " ">>
    /\ result.status = "not_implemented"

\* C12: a tag outside the four recognized ones is dispatched to the
\* SemanticSearch branch and the request is answered with a SemanticSearch
\* response (retrieval, then synthesis) of the unified shape, never with the
\* error response.
C12_UnknownTagSemantic ==
    (/\ pc = "orchestrated"
     /\ calls[1].outcome.kind = "json"
     /\ calls[1].outcome.query_type \notin QueryType) =>
        /\ branches = <<"SemanticSearch">>
        /\ result.query_type = "advanced_search"
        /\ CallNames = <<"classify", "embed", "search", "synthesize">>

\* C13: a failed filter extraction is visible as a failure in the response
\* of the orchestrator: the response of a request whose extraction failed is
\* not the response of a successful structured search.
ReportsStructuredSuccess(res) ==
    /\ res.query_type = "basic_search"
    /\ "error" \notin DOMAIN res
    /\ "status" \notin DOMAIN res

C13_ExtractionFailureVisible ==
    (/\ pc = "orchestrated"
     /\ branches = <<"StructuredSearch">>
     /\ calls[2].outcome.kind # "parsed") =>
        ~ReportsStructuredSuccess(result)

\* C14: the error response is the same for every exception: what the caller
\* receives does not carry the text of the exception.
C14_UniformErrorResponse ==
    /\ (pc = "orchestrated" /\ result.query_type = "error") =>
          Get(result, "error", None) # calls[Len(calls)].outcome.text
    /\ (pc = "responded" /\ calls # <<>> /\ result.query_type = "error"
        /\ http.status = 200) =>
          http.body.error # calls[Len(calls)].outcome.text

\* C15: the list returned by run_search has one item per row of the store's
\* answer, in the store's order, and never more than NUM_SEARCH_RESULTS
\* items.
C15_EvidenceOrder ==
    (pc = "synthesize" /\ calls[Len(calls)].name = "search") =>
        /\ Len(documents) = Len(calls[Len(calls)].outcome.value)
        /\ Len(documents) <= NUM_SEARCH_RESULTS
        /\ \A i \in 1..Len(documents) :
              /\ documents[i].id = calls[Len(calls)].outcome.value[i].ID
              /\ documents[i].score = calls[Len(calls)].outcome.value[i].score

C15_Witness ==
    /\ pc = "synthesize"
    /\ Len(documents) = 2
    /\ documents[1].id = "doc-3"
    /\ documents[2].id = "doc-1"

\* C17: a failed embedding of the query does not abort the retrieval: the
\* store is still queried and run_search returns a list.
C17_EmbeddingFailureDegrades ==
    (/\ pc = "orchestrated"
     /\ Len(calls) >= 2
     /\ calls[2].name = "embed"
     /\ calls[2].outcome.kind = "raise") =>
        /\ Len(calls) >= 3
        /\ calls[3].name = "search"

\* C19: in the SemanticSearch branch the text of the synthesis completion is
\* the answer of the response, unmodified; the orchestrator adds query_type
\* and classification and leaves question, documents and answer as
\* process_question returned them.
C19_AnswerPassThrough ==
    (/\ pc = "orchestrated"
     /\ calls[Len(calls)].name = "synthesize"
     /\ calls[Len(calls)].outcome.kind = "content") =>
        /\ result.answer = calls[Len(calls)].outcome.value
        /\ result.documents = documents
        /\ result.question = question
        /\ DOMAIN result =
              {"question", "documents", "answer", "query_type", "classification"}
        /\ result.classification = classification

C19_Witness ==
    /\ pc = "orchestrated"
    /\ calls[Len(calls)].name = "synthesize"
    /\ result.answer = "I couldn't find any relevant information."
    /\ Len(result.documents) = 1

(***************************************************************************)
(* generate_embeddings as a state machine                                  *)
(***************************************************************************)
\* populate_index hands a text to generate_embeddings; a blank text returns
\* at once, any other text goes to the embedding provider.
CallGenerateEmbeddings ==
    /\ embedding.pc = "idle"
    /\ \E script \in IndexingScripts, text \in EmbeddingTexts :
          embedding' =
             IF IsBlankText(text)
             THEN [pc |-> "returned", script |-> script, text |-> text,
                   outcome |-> NoneObj,
                   vector |-> generate_embeddings(script, text, NoneObj)]
             ELSE [pc |-> "provider", script |-> script, text |-> text,
                   outcome |-> NoneObj, vector |-> <<>>]
    /\ UNCHANGED <<chatVars, classify_ep, requests, toolVars>>

\* openai_client.embeddings.create answers (or raises).
EmbeddingProviderAnswers ==
    /\ embedding.pc = "provider"
    /\ \E outcome \in IndexEmbeddingOutcomes(embedding.script) :
          embedding' =
             [embedding EXCEPT
                !.pc = "returned",
                !.outcome = outcome,
                !.vector = generate_embeddings(embedding.script, embedding.text, outcome)]
    /\ UNCHANGED <<chatVars, classify_ep, requests, toolVars>>

\* The vector is stored in the row; the next text can be embedded.
ReturnEmbedding ==
    /\ embedding.pc = "returned"
    /\ embedding' = EmbeddingIdle
    /\ UNCHANGED <<chatVars, classify_ep, requests, toolVars>>

EmbeddingNext ==
    \/ CallGenerateEmbeddings
    \/ EmbeddingProviderAnswers
    \/ ReturnEmbedding

EmbeddingSpec == Init /\ [][EmbeddingNext]_vars

\* C16: for a blank text and for a failed provider call generate_embeddings
\* returns a vector of zeros whose length is the dimensionality declared for
\* the vector fields of the script's index; a blank text never reaches the
\* provider, and the call always returns.
C16_ZeroVectorFallback ==
    /\ embedding.pc \in {"idle", "provider", "returned"}
    /\ embedding.pc = "provider" => ~IsBlankText(embedding.text)
    /\ (embedding.pc = "returned" /\ strip(embedding.text) = <<>>) =>
          embedding.outcome = NoneObj
    /\ (/\ embedding.pc = "returned"
        /\ \/ strip(embedding.text) = <<>>
           \/ embedding.outcome.kind # "vector") =>
          /\ Len(embedding.vector) = IndexVectorDimensions(embedding.script)
          /\ \A i \in 1..Len(embedding.vector) : embedding.vector[i] = 0

C16_Witness ==
    /\ embedding.pc = "returned"
    /\ embedding.script = "knowledge_indexing"
    /\ embedding.text = <<"k", " ">>
    /\ embedding.outcome.kind = "raise"
    /\ Len(embedding.vector) = 3072

(***************************************************************************)
(* The /classify endpoint, called again and again                          *)
(***************************************************************************)
\* The provider is a deterministic stub, fixed for the whole run.
ClassifyInit ==
    /\ pc = "idle"
    /\ question = <<>>
    /\ classification = NoneObj
    /\ query_vector = <<>>
    /\ documents = <<>>
    /\ result = NoneObj
    /\ http = NoneObj
    /\ calls = <<>>
    /\ branches = <<>>
    /\ embedding = EmbeddingIdle
    /\ \E provider \in DeterministicProviders : classify_ep = ClassifyIdle(provider)
    /\ requests = [r \in RequestIds |-> RequestIdle]
    /\ mapping = MappingIdle
    /\ tracing = TracingIdle
    /\ indexer = IndexerIdle
    /\ importer = ImporterIdle

\* The questions already classified in this run
SeenQuestions == {e.question : e \in classify_ep.seen}

\* A POST /classify arrives (the run remembers the first classification of
\* at most MaxRemembered different questions).
ReceiveClassify ==
    /\ classify_ep.pc = "idle"
    /\ \E q \in Questions :
          /\ q \in SeenQuestions \/ Cardinality(SeenQuestions) < MaxRemembered
          /\ classify_ep' = [classify_ep EXCEPT !.pc = "called", !.question = q]
    /\ UNCHANGED <<chatVars, embedding, requests, toolVars>>

\* Mutant: the classifier answers from the failure path once a question has
\* been asked before (state kept between calls).
ClassifyEndpoint_stateful ==
    /\ classify_ep.pc = "called"
    /\ classify_ep' =
          [classify_ep EXCEPT
             !.pc = "returned",
             !.response =
                classify_query_endpoint(
                   classify_ep.question,
                   IF classify_ep.question \in SeenQuestions
                   THEN FallbackClassification
                   ELSE classify_query(classify_ep.provider[classify_ep.question]))]
    /\ UNCHANGED <<chatVars, embedding, requests, toolVars>>

\* classify_query_endpoint: classify_query(request.question), whose only
\* inputs are the question and the provider's answer to it.
ClassifyEndpoint ==
    /\ classify_ep.pc = "called"
    /\ classify_ep' =
          [classify_ep EXCEPT
             !.pc = "returned",
             !.response =
                classify_query_endpoint(
                   classify_ep.question,
                   classify_query(classify_ep.provider[classify_ep.question]))]
    /\ UNCHANGED <<chatVars, embedding, requests, toolVars>>

\* The body is sent; the observer notes the classification of a question
\* the first time it is classified.
FinishClassify ==
    /\ classify_ep.pc = "returned"
    /\ classify_ep' =
          [classify_ep EXCEPT
             !.pc = "idle",
             !.question = <<>>,
             !.response = NoneObj,
             !.seen =
                IF classify_ep.question \in SeenQuestions THEN @
                ELSE @ \cup {[question |-> classify_ep.question,
                              classification |-> classify_ep.response.classification]}]
    /\ UNCHANGED <<chatVars, embedding, requests, toolVars>>

ClassifyNext ==
    \/ ReceiveClassify
    \/ ClassifyEndpoint
    \/ FinishClassify

ClassifySpec == ClassifyInit /\ [][ClassifyNext]_vars

ConcurrentQuestions == {q \in Questions : ~IsEmptyQuestion(q)}

\* Collaborator answers used side by side (some of each kind)
ConcurrentOutcomes(at) ==
    IF at = "classify"
    THEN {StubRaise,
          StubJson("basic_search", None),
          StubJson("advanced_search", None),
          StubJson("nl2sql", None),
          StubJson("clarification_needed", "Which sanctions program do you mean?")}
    ELSE IF at = "extract"
    THEN {[kind |-> "raise", text |-> "timeout"],
          [kind |-> "parsed", value |-> DefaultSearchParameters]}
    ELSE IF at = "embed"
    THEN {[kind |-> "raise", text |-> "timeout"],
          [kind |-> "vector", value |-> <<3, 1, 4>>]}
    ELSE IF at = "search"
    THEN {[kind |-> "raise", text |-> "unauthorized"],
          [kind |-> "results", value |-> <<>>],
          [kind |-> "results",
           value |-> <<StoreRow("doc-1", "Iran Notice", "key facts",
                                "document text", "commentary", 9)>>]}
    ELSE {[kind |-> "raise", text |-> "timeout"],
          [kind |-> "content", value |-> "According to [Iran Notice], ..."]}

\* Lines 205-253 for a call whose classification is c: the clarification
\* and the NL2SQL branch return, the search branches go to their first
\* collaborator call.
Dispatch(st, c) ==
    IF BranchOf(c) = "Clarification"
    THEN [st EXCEPT !.result = clarification_response(st.question, c),
                    !.pc = "returned"]
    ELSE IF BranchOf(c) = "Statistical"
    THEN [st EXCEPT !.result = nl2sql_response(st.question, c),
                    !.pc = "returned"]
    ELSE IF BranchOf(c) = "StructuredSearch"
    THEN [st EXCEPT !.pc = "extract"]
    ELSE [st EXCEPT !.pc = "embed"]

\* One step of process_query_with_routing on its own locals st, given the
\* answer of the collaborator it is calling.
RequestStep(st, outcome) ==
    LET logged == [st EXCEPT !.calls = Append(@, Call(st.pc, outcome))]
        failed == [logged EXCEPT
                      !.result = error_response(st.question,
                                                Get(outcome, "text", None)),
                      !.pc = "returned"]
    IN  IF st.pc = "classify"
        THEN Dispatch([logged EXCEPT !.classification = classify_query(outcome)],
                      classify_query(outcome))
        ELSE IF st.pc = "extract"
        THEN [logged EXCEPT
                 !.result = basic_search_response(st.question, st.classification,
                                                  basic_search(outcome)),
                 !.pc = "returned"]
        ELSE IF outcome.kind = "raise"
        THEN failed
        ELSE IF st.pc = "embed"
        THEN [logged EXCEPT !.pc = "search"]
        ELSE IF st.pc = "search"
        THEN [logged EXCEPT !.documents = run_search(outcome.value),
                            !.pc = "synthesize"]
        ELSE [logged EXCEPT
                 !.result = advanced_search_response(
                               st.classification,
                               process_question(st.question, st.documents,
                                                outcome.value)),
                 !.pc = "returned"]

RunningPcs == {"classify", "extract", "embed", "search", "synthesize"}

\* process_query_with_routing(q) is called.
BeginRequest(r) ==
    /\ requests[r].pc = "idle"
    /\ \E q \in ConcurrentQuestions :
          requests' = [requests EXCEPT ![r] =
                          [RequestIdle EXCEPT !.pc = "classify", !.question = q]]
    /\ UNCHANGED <<chatVars, embedding, classify_ep, toolVars>>

\* Mutant: the classification is a module-level variable, so a call is
\* dispatched on the classification the other call stored last.
StepRequest_shared(r) ==
    /\ requests[r].pc \in RunningPcs
    /\ \E outcome \in ConcurrentOutcomes(requests[r].pc) :
          LET other == CHOOSE o \in RequestIds : o # r
              st == requests[r]
          IN  requests' = [requests EXCEPT ![r] =
                 IF st.pc = "classify" /\ requests[other].classification # NoneObj
                 THEN Dispatch([st EXCEPT
                                   !.calls = Append(@, Call("classify", outcome)),
                                   !.classification = requests[other].classification],
                               requests[other].classification)
                 ELSE RequestStep(st, outcome)]
    /\ UNCHANGED <<chatVars, embedding, classify_ep, toolVars>>

\* A running call gets the answer of its collaborator and goes on; it reads
\* and writes its own locals only.
StepRequest(r) ==
    /\ requests[r].pc \in RunningPcs
    /\ \E outcome \in ConcurrentOutcomes(requests[r].pc) :
          requests' = [requests EXCEPT ![r] = RequestStep(requests[r], outcome)]
    /\ UNCHANGED <<chatVars, embedding, classify_ep, toolVars>>

\* The caller has the response; the locals are gone.
EndRequest(r) ==
    /\ requests[r].pc = "returned"
    /\ requests' = [requests EXCEPT ![r] = RequestIdle]
    /\ UNCHANGED <<chatVars, embedding, classify_ep, toolVars>>

ConcurrentNext ==
    \/ \E r \in RequestIds : BeginRequest(r)
    \/ \E r \in RequestIds : StepRequest(r)
    \/ \E r \in RequestIds : EndRequest(r)

ConcurrentSpec == Init /\ [][ConcurrentNext]_vars

\* The call run alone: the steps applied one after the other to the
\* collaborator answers, in the order given.
RECURSIVE RunSteps(_, _)
RunSteps(st, answers) ==
    IF answers = <<>> \/ st.pc \notin RunningPcs THEN st
    ELSE RunSteps(RequestStep(st, Head(answers)), Tail(answers))

RunAlone(q, answers) ==
    RunSteps([RequestIdle EXCEPT !.pc = "classify", !.question = q], answers)

AnswersOf(st) == [i \in 1..Len(st.calls) |-> st.calls[i].outcome]

C21_NeverCrashedResponse ==
    (pc = "responded" /\ ~IsEmptyQuestion(question)) =>
        /\ http.status = 200
        /\ http.body.answer # None

\* The calls issued for the request before call i have all completed with a
\* value (not with an exception).
CompletedBefore(i) ==
    \A j \in 1..(i - 1) : calls[j].outcome.kind # "raise" \/ calls[j].name = "classify"

\* C22: within one request the classification call is the first call, and
\* in the semantic branch the store query is issued right after a completed
\* embedding call and the synthesis call right after a completed store
\* query.
C22_SequentialPipeline ==
    \A i \in 1..Len(calls) :
        /\ (calls[i].name = "classify") <=> (i = 1)
        /\ calls[i].name = "search" =>
              /\ i = 3
              /\ calls[2].name = "embed"
              /\ calls[2].outcome.kind = "vector"
              /\ query_vector = calls[2].outcome.value
        /\ calls[i].name = "synthesize" =>
              /\ i = 4
              /\ calls[3].name = "search"
              /\ calls[3].outcome.kind = "results"
        /\ CompletedBefore(i)

C22_Witness ==
    /\ pc = "orchestrated"
    /\ CallNames = <<"classify", "embed", "search", "synthesize">>
    /\ result.query_type = "advanced_search"

\* C23: classify_query is never called with a question that is empty after
\* trimming, neither on the /chat path nor by the /classify endpoint.
C23_ClassifierNeverGetsEmpty ==
    /\ (\E i \in 1..Len(calls) : calls[i].name = "classify") =>
          ~IsEmptyQuestion(question)
    /\ classify_ep.pc = "returned" => ~IsEmptyQuestion(classify_ep.question)

\* The labelled sections a row must contribute, from the claim: the four
\* labels in their fixed order, a section for a field that has a value only.
LabelledFields(row) ==
    <<<<"TITLE", row.Title>>, <<"KEY FACTS", row.KeyFacts>>,
      <<"DOCUMENT TEXT", row.DocumentText>>, <<"COMMENTARY", row.Commentary>>>>

RECURSIVE SectionsOf(_)
SectionsOf(fields) ==
    IF fields = <<>> THEN <<>>
    ELSE IF Head(fields)[2] = None \/ Head(fields)[2] = ""
    THEN SectionsOf(Tail(fields))
    ELSE <<Section(Head(fields)[1], Head(fields)[2])>> \o SectionsOf(Tail(fields))

ChooseParameters ==
    /\ mapping.pc = "idle"
    /\ \E params \in MappingInputs :
          mapping' = [mapping EXCEPT
                         !.pc = "chosen",
                         !.input = PyObject("SearchParameters", params)]
    /\ UNCHANGED <<serviceVars, tracing, indexer, importer>>

\* structured_outputs_mapping(structured_outputs)
ApplyMapping ==
    /\ mapping.pc = "chosen"
    /\ mapping' = [mapping EXCEPT
                      !.pc = "mapped",
                      !.first = call_structured_outputs_mapping(mapping.input)]
    /\ UNCHANGED <<serviceVars, tracing, indexer, importer>>

\* structured_outputs_mapping applied to what it returned.
ApplyMappingAgain ==
    /\ mapping.pc = "mapped"
    /\ mapping.first.kind = "return"
    /\ mapping' = [mapping EXCEPT
                      !.pc = "remapped",
                      !.second = call_structured_outputs_mapping(mapping.first.value)]
    /\ UNCHANGED <<serviceVars, tracing, indexer, importer>>

ForgetMapping ==
    /\ mapping.pc = "remapped"
    /\ mapping' = MappingIdle
    /\ UNCHANGED <<serviceVars, tracing, indexer, importer>>

MappingNext ==
    \/ ChooseParameters
    \/ ApplyMapping
    \/ ApplyMappingAgain
    \/ ForgetMapping

MappingSpec == Init /\ [][MappingNext]_vars

\* C25: the mapping keeps the length of every facet list, gives every value
\* one identifier, returns the other fields and the empty facet lists as
\* they were, and applied to an already mapped result returns that result.
C25_MappingTotalIdempotent ==
    /\ mapping.pc \in {"mapped", "remapped"} =>
          /\ mapping.first.kind = "return"
          /\ \A f \in DOMAIN mapping.input.value :
                IF f \in list_fields_to_map /\ mapping.input.value[f] # <<>>
                THEN /\ Len(mapping.first.value.value[f]) = Len(mapping.input.value[f])
                     /\ \A i \in 1..Len(mapping.input.value[f]) :
                           mapping.first.value.value[f][i] \in Nat
                ELSE mapping.first.value.value[f] = mapping.input.value[f]
    /\ mapping.pc = "remapped" =>
          /\ mapping.second.kind = "return"
          /\ mapping.second.value = mapping.first.value

(***************************************************************************)
(* Calls of setup_tracing in one process                                   *)
(***************************************************************************)
TracingEvent(what) == [call |-> tracing.call, what |-> what]

\* setup_tracing() is called (app.py:16, or any later caller).
CallSetupTracing ==
    /\ tracing.pc = "idle"
    /\ tracing.call < MaxTracingCalls
    /\ tracing' = [tracing EXCEPT !.pc = "check", !.call = @ + 1]
    /\ UNCHANGED <<serviceVars, mapping, indexer, importer>>

\* if _tracing_initialized: return
CheckInitialized ==
    /\ tracing.pc = "check"
    /\ tracing' = [tracing EXCEPT
                      !.pc = IF tracing.initialized THEN "idle" ELSE "instrument"]
    /\ UNCHANGED <<serviceVars, mapping, indexer, importer>>

\* OpenAIInstrumentor().instrument()
InstrumentOpenAI ==
    /\ tracing.pc = "instrument"
    /\ tracing' = [tracing EXCEPT
                      !.pc = "configure",
                      !.log = Append(@, TracingEvent("instrument"))]
    /\ UNCHANGED <<serviceVars, mapping, indexer, importer>>

\* configure_azure_monitor when a connection string is set; it raises for a
\* string it cannot parse, and the exception leaves setup_tracing before the
\* flag is set.
ConfigureMonitor ==
    /\ tracing.pc = "configure"
    /\ \E connection_string \in ConnectionStrings :
          IF connection_string = None
          THEN tracing' = [tracing EXCEPT !.pc = "set_flag"]
          ELSE IF connection_string = "not a connection string"
          THEN tracing' = [tracing EXCEPT
                              !.pc = "idle",
                              !.log = Append(@, TracingEvent("configure raised"))]
          ELSE tracing' = [tracing EXCEPT
                              !.pc = "set_flag",
                              !.log = Append(@, TracingEvent("configure"))]
    /\ UNCHANGED <<serviceVars, mapping, indexer, importer>>

\* _tracing_initialized = True, the last statement
SetInitialized ==
    /\ tracing.pc = "set_flag"
    /\ tracing' = [tracing EXCEPT !.pc = "idle", !.initialized = TRUE]
    /\ UNCHANGED <<serviceVars, mapping, indexer, importer>>

TracingNext ==
    \/ CallSetupTracing
    \/ CheckInitialized
    \/ InstrumentOpenAI
    \/ ConfigureMonitor
    \/ SetInitialized

TracingSpec == Init /\ [][TracingNext]_vars

\* C27: over any sequence of calls of setup_tracing the instrumentation and
\* the monitor configuration are performed by the first call only.
C27_SetupRunsOnce ==
    \A k \in 1..Len(tracing.log) : tracing.log[k].call = 1

(***************************************************************************)
(* A run of populate_index                                                 *)
(***************************************************************************)
\* populate_index(batch_size) is called and fetches the rows.
PopulateIndex ==
    /\ indexer.pc = "idle"
    /\ \E script \in IndexingScripts :
       \E batch_size \in BatchSizes(script) :
       \E rows \in FetchedRows :
          indexer' = [IndexerIdle EXCEPT
                         !.pc = "loop", !.script = script,
                         !.batch_size = batch_size, !.rows = rows]
    /\ UNCHANGED <<serviceVars, mapping, tracing, importer>>

\* One iteration of the loop up to the test of the batch: row i (counted from
\* zero in the code, from one here) is completed and appended.
IndexRow ==
    /\ indexer.pc = "loop"
    /\ indexer.i < Len(indexer.rows)
    /\ \E outcomes \in RowEmbeddingOutcomes(indexer.script) :
          LET i == indexer.i + 1
              batch == Append(indexer.batch,
                              index_document(indexer.script, indexer.rows[i], outcomes))
          IN  indexer' = [indexer EXCEPT
                             !.i = i,
                             !.batch = batch,
                             !.pc = IF Len(batch) >= indexer.batch_size
                                       \/ i = Len(indexer.rows)
                                    THEN "upload" ELSE "loop"]
    /\ UNCHANGED <<serviceVars, mapping, tracing, importer>>

\* Mutant: a batch whose upload failed is kept and goes out again with the
\* next rows.
UploadBatch_retry ==
    /\ indexer.pc = "upload"
    /\ \E ok \in BOOLEAN :
          indexer' = [indexer EXCEPT
                         !.uploads = Append(@, [documents |-> indexer.batch, ok |-> ok]),
                         !.batch = IF ok THEN <<>> ELSE @,
                         !.pc = "loop"]
    /\ UNCHANGED <<serviceVars, mapping, tracing, importer>>

\* search_client.upload_documents(documents=batch) inside try/except, then
\* batch = [] whether or not the upload raised.
UploadBatch ==
    /\ indexer.pc = "upload"
    /\ \E ok \in BOOLEAN :
          indexer' = [indexer EXCEPT
                         !.uploads = Append(@, [documents |-> indexer.batch, ok |-> ok]),
                         !.batch = <<>>,
                         !.pc = "loop"]
    /\ UNCHANGED <<serviceVars, mapping, tracing, importer>>

\* The loop is over; populate_index returns.
FinishPopulate ==
    /\ indexer.pc = "loop"
    /\ indexer.i = Len(indexer.rows)
    /\ indexer' = [indexer EXCEPT !.pc = "done"]
    /\ UNCHANGED <<serviceVars, mapping, tracing, importer>>

ForgetPopulate ==
    /\ indexer.pc = "done"
    /\ indexer' = IndexerIdle
    /\ UNCHANGED <<serviceVars, mapping, tracing, importer>>

IndexerNext ==
    \/ PopulateIndex
    \/ IndexRow
    \/ UploadBatch
    \/ FinishPopulate
    \/ ForgetPopulate

IndexerSpec == Init /\ [][IndexerNext]_vars

\* The documents passed to upload_documents so far, batch after batch
RECURSIVE Flatten(_)
Flatten(batches) ==
    IF batches = <<>> THEN <<>>
    ELSE Head(batches).documents \o Flatten(Tail(batches))

UploadedDocuments == Flatten(indexer.uploads)

\* C26: every document passed to upload_documents has a string ID and the
\* three vector fields, each of the dimensionality of the index; the vector
\* of a text that is empty or missing is the zero vector.
C26_UploadedDocumentShape ==
    \A n \in 1..Len(UploadedDocuments) :
        LET doc == UploadedDocuments[n]
            row == indexer.rows[n]
        IN  /\ doc.ID \in STRING
            /\ doc.ID # None
            /\ \A k \in 1..3 :
                  /\ VectorField(TextFields[k]) \in DOMAIN doc
                  /\ doc[VectorField(TextFields[k])].dimensions
                        = IndexVectorDimensions(indexer.script)
                  /\ (row[TextFields[k]] = {} \/ row[TextFields[k]] = {<<>>}) =>
                        doc[VectorField(TextFields[k])].components = {0}

C26_Witness ==
    /\ indexer.pc = "done"
    /\ Len(UploadedDocuments) = 2
    /\ indexer.rows[1].DocumentText = {}
    /\ indexer.rows[1].KeyFacts = {<<>>}
    /\ UploadedDocuments[1].DocumentTextVector.components = {0}
    /\ UploadedDocuments[2].DocumentTextVector.components = {1}

\* C28: every row goes to upload_documents in exactly one batch; the
\* batches are contiguous slices of the rows in order, never empty, of
\* batch_size documents except for the last one, which may be smaller; a
\* failed batch is not uploaded again and the batches after it still are.
C28_IndexBatching ==
    /\ Len(UploadedDocuments) + Len(indexer.batch) = indexer.i
    /\ \A n \in 1..Len(UploadedDocuments) : UploadedDocuments[n].ID = ToString(n)
    /\ \A b \in 1..Len(indexer.uploads) :
          /\ indexer.uploads[b].documents # <<>>
          /\ Len(indexer.uploads[b].documents) <= indexer.batch_size
          /\ \/ Len(indexer.uploads[b].documents) = indexer.batch_size
             \/ Len(Flatten(SubSeq(indexer.uploads, 1, b))) = Len(indexer.rows)
    /\ indexer.pc = "done" =>
          /\ indexer.batch = <<>>
          /\ Len(UploadedDocuments) = Len(indexer.rows)

C28_Witness ==
    /\ indexer.pc = "done"
    /\ indexer.batch_size = 1
    /\ Len(indexer.uploads) = 2
    /\ ~indexer.uploads[1].ok
    /\ indexer.uploads[2].ok

(***************************************************************************)
(* A run of main of an SQL import script                                   *)
(***************************************************************************)
ImportStep(name, ok) == [name |-> name, ok |-> ok]

\* The outcome of a check: the run goes on to pc next, or the process exits.
AfterCheck(name, ok, next) ==
    [importer EXCEPT !.steps = Append(@, ImportStep(name, ok)),
                     !.pc = IF ok THEN next ELSE "exited"]

\* The script is started.
StartImport ==
    /\ importer.pc = "idle"
    /\ \E script \in ImportScripts :
       \E batch_size \in ImportBatchSizes(script) :
       \E file \in DataFiles :
          importer' = [ImporterIdle EXCEPT
                          !.pc = "validate_file", !.script = script,
                          !.batch_size = batch_size, !.file = file]
    /\ UNCHANGED <<serviceVars, mapping, tracing, indexer>>

\* validate_csv_file / validate_data_file: the file exists and has a header.
ValidateDataFile ==
    /\ importer.pc = "validate_file"
    /\ importer' =
          AfterCheck(ChecksBeforeImport(importer.script)[1],
                     importer.file.exists /\ importer.file.headers # "empty",
                     IF importer.script = "import_sql_data_full"
                     THEN "check_schema" ELSE "validate_sql")
    /\ UNCHANGED <<serviceVars, mapping, tracing, indexer>>

\* check_schema_simple: sys.exit(1) unless the header is the expected list.
CheckSchema ==
    /\ importer.pc = "check_schema"
    /\ importer' = AfterCheck("check_schema_simple",
                              importer.file.headers = "expected", "preflight")
    /\ UNCHANGED <<serviceVars, mapping, tracing, indexer>>

\* Mutant: the scan prints what it found and the import goes on.
PreflightScan_lenient ==
    /\ importer.pc = "preflight"
    /\ importer' =
          [AfterCheck("preflight_scan",
                      \A i \in 1..Len(importer.file.rows) : importer.file.rows[i].valid,
                      "validate_sql")
             EXCEPT !.pc = "validate_sql"]
    /\ UNCHANGED <<serviceVars, mapping, tracing, indexer>>

\* preflight_scan: every value of every row is tested; sys.exit(1) when one
\* of them fails.
PreflightScan ==
    /\ importer.pc = "preflight"
    /\ importer' =
          AfterCheck("preflight_scan",
                     \A i \in 1..Len(importer.file.rows) : importer.file.rows[i].valid,
                     "validate_sql")
    /\ UNCHANGED <<serviceVars, mapping, tracing, indexer>>

\* validate_sql_connection: SELECT 1 over a connection of its own.
ValidateSqlConnection ==
    /\ importer.pc = "validate_sql"
    /\ \E ok \in BOOLEAN :
          importer' = AfterCheck("validate_sql_connection", ok, "connect")
    /\ UNCHANGED <<serviceVars, mapping, tracing, indexer>>

\* create_connection_string_with_token and pyodbc.connect
ConnectForImport ==
    /\ importer.pc = "connect"
    /\ \E ok \in BOOLEAN :
          importer' = AfterCheck("connect", ok, "truncate")
    /\ UNCHANGED <<serviceVars, mapping, tracing, indexer>>

\* create_or_truncate_table(cursor); conn.commit(): the table is empty
\* afterwards.
CreateOrTruncateTable ==
    /\ importer.pc = "truncate"
    /\ importer' = [importer EXCEPT
                       !.steps = Append(@, ImportStep("create_or_truncate_table", TRUE)),
                       !.table = <<>>,
                       !.pc = "read"]
    /\ UNCHANGED <<serviceVars, mapping, tracing, indexer>>

\* for row in reader: the row is appended and counted; a full batch goes to
\* batch_insert.
ReadRow ==
    /\ importer.pc = "read"
    /\ importer.position < Len(importer.file.rows)
    /\ LET position == importer.position + 1
           batch_rows == Append(importer.batch_rows, importer.file.rows[position])
       IN  importer' = [importer EXCEPT
                           !.position = position,
                           !.batch_rows = batch_rows,
                           !.total_rows = @ + 1,
                           !.pc = IF Len(batch_rows) >= importer.batch_size
                                  THEN "insert" ELSE "read"]
    /\ UNCHANGED <<serviceVars, mapping, tracing, indexer>>

\* The file is read to its end: a batch that is not empty goes to
\* batch_insert.
EndOfFile ==
    /\ importer.pc = "read"
    /\ importer.position = Len(importer.file.rows)
    /\ importer' = [importer EXCEPT
                       !.pc = IF importer.batch_rows # <<>> THEN "insert" ELSE "report"]
    /\ UNCHANGED <<serviceVars, mapping, tracing, indexer>>

\* Where the run goes after batch_insert: back to the loop, or past the
\* final batch.
AfterInsert == IF importer.position < Len(importer.file.rows) THEN "read" ELSE "report"

\* Mutant: the import stops at the first batch that fails.
InsertBatch_stop ==
    /\ importer.pc = "insert"
    /\ \/ importer' = [importer EXCEPT
                          !.submitted = Append(@, [rows |-> importer.batch_rows, ok |-> TRUE]),
                          !.table = @ \o importer.pending \o importer.batch_rows,
                          !.pending = <<>>,
                          !.batch_rows = <<>>,
                          !.pc = AfterInsert]
       \/ \E executed \in 0..(Len(importer.batch_rows) - 1) :
             importer' = [importer EXCEPT
                             !.submitted = Append(@, [rows |-> importer.batch_rows, ok |-> FALSE]),
                             !.pending = @ \o SubSeq(importer.batch_rows, 1, executed),
                             !.batch_rows = <<>>,
                             !.pc = "report"]
    /\ UNCHANGED <<serviceVars, mapping, tracing, indexer>>

\* batch_insert(cursor, headers, batch_rows); conn.commit() inside
\* try/except.  executemany either inserts all rows, which are committed
\* with whatever the transaction already holds, or raises after some of the
\* rows were executed; the except clause only empties the batch (there is no
\* rollback), and the loop goes on.
InsertBatch ==
    /\ importer.pc = "insert"
    /\ \/ importer' = [importer EXCEPT
                          !.submitted = Append(@, [rows |-> importer.batch_rows, ok |-> TRUE]),
                          !.table = @ \o importer.pending \o importer.batch_rows,
                          !.pending = <<>>,
                          !.batch_rows = <<>>,
                          !.pc = AfterInsert]
       \/ \E executed \in 0..(Len(importer.batch_rows) - 1) :
             importer' = [importer EXCEPT
                             !.submitted = Append(@, [rows |-> importer.batch_rows, ok |-> FALSE]),
                             !.pending = @ \o SubSeq(importer.batch_rows, 1, executed),
                             !.batch_rows = <<>>,
                             !.pc = AfterInsert]
    /\ UNCHANGED <<serviceVars, mapping, tracing, indexer>>

\* print('... Total rows loaded: {total_rows}'), then conn.close() in the
\* finally clause: what was not committed is lost.
ReportTotal ==
    /\ importer.pc = "report"
    /\ importer' = [importer EXCEPT
                       !.reported = {importer.total_rows},
                       !.pending = <<>>,
                       !.pc = "done"]
    /\ UNCHANGED <<serviceVars, mapping, tracing, indexer>>

\* The process has ended.
EndImport ==
    /\ importer.pc \in {"done", "exited"}
    /\ importer' = ImporterIdle
    /\ UNCHANGED <<serviceVars, mapping, tracing, indexer>>

ImporterNext ==
    \/ StartImport
    \/ ValidateDataFile
    \/ CheckSchema
    \/ PreflightScan
    \/ ValidateSqlConnection
    \/ ConnectForImport
    \/ CreateOrTruncateTable
    \/ ReadRow
    \/ EndOfFile
    \/ InsertBatch
    \/ ReportTotal
    \/ EndImport

ImporterSpec == Init /\ [][ImporterNext]_vars

\* The rows handed to batch_insert so far, call after call
RECURSIVE SubmittedRows(_)
SubmittedRows(batches) ==
    IF batches = <<>> THEN <<>>
    ELSE Head(batches).rows \o SubmittedRows(Tail(batches))

ChecksPassedBefore(k) ==
    \A c \in 1..4 :
        \E j \in 1..(k - 1) :
            /\ importer.steps[j].name = ChecksBeforeImport("import_sql_data_full")[c]
            /\ importer.steps[j].ok

\* C30: in the full import the table is truncated or created only after the
\* data-file validation, the schema check, the preflight scan and the SQL
\* connection validation have all passed; when one of them fails the process
\* exits and the table is as it was.
C30_TruncateAfterChecks ==
    importer.script = "import_sql_data_full" =>
        /\ \A k \in 1..Len(importer.steps) :
              importer.steps[k].name = "create_or_truncate_table" => ChecksPassedBefore(k)
        /\ (\E k \in 1..Len(importer.steps) : ~importer.steps[k].ok) =>
              /\ importer.pc = "exited"
              /\ importer.table = ExistingTable
              /\ importer.pending = <<>>
              /\ importer.submitted = <<>>

C30_Witness ==
    /\ importer.script = "import_sql_data_full"
    /\ importer.pc = "done"
    /\ importer.table = importer.file.rows
    /\ Len(importer.file.rows) = 2

====
